---- MODULE Spec2Model ----
(***************************************************************************)
(* A model of bindex: the hash-linked header chain (src/src/chain.rs) and  *)
(* the address-status tool built on it (src/src/bin/bindex.rs): ledger     *)
(* replay (Status::print_history) and cache sync (Status::sync_sqlite).    *)
(*                                                                         *)
(* Five specifications share the variables:                                *)
(*   Spec        the Chain object under new / add / pop / find_by_txpos    *)
(*   SpecReplay  one run of Status::print_history over a Location set      *)
(*   SpecCache   successive Status::sync_sqlite passes, failures, restarts *)
(*   SpecMain    the outer loop of main and the stages it calls            *)
(*   SpecHistory Status::create and the rows and table of print_history    *)
(***************************************************************************)
EXTENDS Integers, Sequences, FiniteSets, TLC

(***************************************************************************)
(* Bounds of the model.                                                    *)
(***************************************************************************)
\* longest chain of headers explored
MaxLen == 3
\* most transactions one block adds to the global position counter
MaxTx == 2
\* block hashes are drawn from 1..NumHashes; 0 is BlockHash::all_zeros()
NumHashes == 3

VARIABLES
    rows,            \* Chain.rows: the sequence of index::Header
    overflow_checks, \* build profile: TRUE = arithmetic overflow panics (debug)
    aborted,         \* the process panicked (assert! / expect / overflow)
    pc,              \* "new": inside Chain::new's loop; "ready": Chain constructed
    last,            \* the last Chain operation: its input, pre-state and result
    \* ---- Status::print_history (src/src/bin/bindex.rs) ----
    map_keys,        \* the keys of Status.map: the watched scripts
    e2e,             \* how many transactions of the three-block history were replayed
    unspent,         \* HashMap<OutPoint, Amount>
    balance,         \* SignedAmount, in satoshi
    out_rows,        \* Vec<Row>
    rpc,             \* where print_history is: "start", "loop", "done", "error", "panic"
    \* ---- Status::sync_sqlite and the main loop (src/src/bin/bindex.rs) ----
    status_cache,    \* args.status_cache: "file" (a path) or ":memory:"
    disk,            \* the committed content of the cache file
    db,              \* the tables as the open connection sees them
    cstatus,         \* Status.map of the pass (script -> Locations)
    hist_todo,       \* the (script, Location) pairs the history loop has yet to visit
    tx_todo,         \* the Locations the txcache loop has yet to visit
    history_rows,    \* the counter history_rows
    txcache_rows,    \* the counter txcache_rows
    cpc,             \* "idle", "history", "txcache", "exited", "error", "panic"
    fetched,         \* the Locations get_tx_bytes was called for in this pass
    inserted,        \* the Locations whose placeholder insert added a row in this pass
    ever_committed,  \* the txcache keys some earlier pass committed
    repeat,          \* this pass has the input of the pass committed just before it
    passes,          \* the number of passes begun
    opened,          \* the committed content when the pass opened its connection
    broken,          \* the input of the pass that was interrupted last, if none
                     \* has committed since
    rerun,           \* this pass has the input of the pass interrupted just before it
    \* ---- main (src/src/bin/bindex.rs) ----
    mpc,             \* where main is: "sync", "create", "print", "cache", "commit",
                     \* "sleep"; "error" (main returned Err), "panic"; "off"
    updated,         \* the local updated
    iter,            \* the number of the iteration of the outer loop
    batches,         \* the sync batches of this iteration that indexed blocks
    last_sync,       \* indexed_blocks of the last sync of this iteration, -1 = none
    stages,          \* the stages called in this iteration, in order
    index_chain,     \* the block hashes of the Chain the index owns
    mined,           \* the number of blocks the node has produced
    mstatus,         \* the Locations the live Status borrows
    txn,             \* the cache transaction of this iteration: "none", "open",
                     \* "committed", "rolled_back"
    failed_at,       \* what failed: "none"; "sync", "find", "get_tx_bytes", "storage"
                     \* (an Err); "bad tx bytes", "missing tx bytes", "invalid tx"
                     \* (the message of the expect that panicked)
    \* ---- Status::create and the table of print_history ----
    hpc,             \* "create", "print", "loop", "done", "error"; "off"
    gscripts,        \* the scripts of collect_scripts
    gtodo,           \* the scripts the loop of Status::create has yet to visit
    gmap,            \* Status.map
    glocations,      \* Status.locations, in the order of the BTreeSet
    find_calls,      \* how often index.find was called for each script
    htodo,           \* the Locations the loop of print_history has yet to visit
    hrows,           \* the Vec rows as the loop built it
    hlocs,           \* the Location of each row of hrows
    hdeltas,         \* the delta of each row of hrows, in satoshi
    hbalance,        \* the local balance, in satoshi
    history_limit,   \* args.history_limit
    table,           \* the rows of the printed table
    printed          \* a table was printed

chainVars == <<rows, overflow_checks, aborted, pc, last>>

replayVars == <<map_keys, e2e, unspent, balance, out_rows, rpc>>

cacheVars == <<status_cache, disk, db, cstatus, hist_todo, tx_todo, history_rows,
               txcache_rows, cpc, fetched, inserted, ever_committed, repeat, passes,
               opened, broken, rerun>>

mainVars == <<mpc, updated, iter, batches, last_sync, stages, index_chain, mined,
              mstatus, txn, failed_at>>

histVars == <<hpc, gscripts, gtodo, gmap, glocations, find_calls, htodo, hrows, hlocs,
              hdeltas, hbalance, history_limit, table, printed>>

toolVars == <<mainVars, histVars>>

vars == <<chainVars, replayVars, cacheVars, toolVars>>

(***************************************************************************)
(* index::Header, as chain.rs uses it: hash(), header().prev_blockhash and *)
(* next_txpos() (the cumulative end-position of the block).                *)
(***************************************************************************)
all_zeros == 0

Hashes == 1..NumHashes

Header(h, p, n) == [hash |-> h, prev_blockhash |-> p, next_txpos |-> n]

NoHeader == Header(0, 0, 0)

\* index::TxPos::default()
TxPos_default == 0

\* usize::MAX, as far as the model checker's integers reach (the real value
\* is 2^64 - 1); only "larger than any index of rows" matters.
USIZE_MAX == 2147483647

(***************************************************************************)
(* Pure accessors of Chain.                                                *)
(***************************************************************************)
\* Vec::get: Rust indices are 0-based, TLA+ sequences 1-based
get_by_height(rs, height) ==
    IF height >= 0 /\ height < Len(rs) THEN rs[height + 1] ELSE NoHeader

has_height(rs, height) == height >= 0 /\ height < Len(rs)

\* a tip_hash that reads the first row instead of the last
tip_hash_first(rs) == IF Len(rs) = 0 THEN all_zeros ELSE rs[1].hash

\* Chain::tip_hash, with the caller's unwrap_or_else(BlockHash::all_zeros)
tip_hash(rs) == IF Len(rs) = 0 THEN all_zeros ELSE rs[Len(rs)].hash

\* Chain::tip_height: None is modelled as -1
tip_height(rs) == Len(rs) - 1

\* Chain::next_txpos
next_txpos(rs) == IF Len(rs) = 0 THEN TxPos_default ELSE rs[Len(rs)].next_txpos

(***************************************************************************)
(* Chain::new: one iteration of the loop that verifies the parent-hash     *)
(* links. block_hash is the hash carried over from the rows verified so    *)
(* far (all_zeros before the first).                                       *)
(***************************************************************************)
new_assert(block_hash, row) == row.prev_blockhash = block_hash

\* a Chain::add that verifies nothing
add_assert_skipped(rs, row) == TRUE

\* the assert_eq! of Chain::add
add_assert(rs, row) == row.prev_blockhash = tip_hash(rs)

\* a Chain::add that inserts at the front
add_push_front(rs, row) == <<row>> \o rs

\* the push of Chain::add
add_push(rs, row) == Append(rs, row)

\* a Chain::pop that removes the oldest header instead of the tip
pop_rows_front(rs) == IF Len(rs) = 0 THEN rs ELSE SubSeq(rs, 2, Len(rs))

\* Vec::pop as Chain::pop uses it: the remaining rows
pop_rows(rs) == IF Len(rs) = 0 THEN rs ELSE SubSeq(rs, 1, Len(rs) - 1)

\* Vec::pop as Chain::pop uses it: the returned header (NoHeader for None)
pop_ret(rs) == IF Len(rs) = 0 THEN NoHeader ELSE rs[Len(rs)]

(***************************************************************************)
(* <[T]>::binary_search_by_key over the headers' next_txpos. The standard  *)
(* library fixes the result only up to the choice among equal keys: "if    *)
(* there are multiple matches, then any one of the matches could be        *)
(* returned". Ok(i) is [ok |-> TRUE, i |-> i], Err(i) the insertion point. *)
(***************************************************************************)
binary_search_by_key(rs, txpos) ==
    LET hits == {i \in 0..(Len(rs) - 1) : rs[i + 1].next_txpos = txpos}
        less == {i \in 0..(Len(rs) - 1) : rs[i + 1].next_txpos < txpos}
    IN  IF hits # {}
        THEN {[ok |-> TRUE, i |-> i] : i \in hits}
        ELSE {[ok |-> FALSE, i |-> Cardinality(less)]}

\* a match arm that keeps a boundary position in the block that ends there
find_height_same(r) == r.i

\* lines 53-59: Ok(i) => i + 1 (a block boundary belongs to the next block)
find_height(r) == IF r.ok THEN r.i + 1 ELSE r.i

\* line 64: height - 1 on usize. With overflow checks the subtraction at
\* height 0 panics (reported as -1 here); without, it wraps to usize::MAX.
prev_index(height, checks) ==
    IF height > 0 THEN height - 1
    ELSE IF checks THEN -1 ELSE USIZE_MAX

\* lines 62-65: the end-position of the predecessor, or TxPos::default()
prev_pos_of(rs, idx) ==
    IF has_height(rs, idx) THEN get_by_height(rs, idx).next_txpos ELSE TxPos_default

\* TxPos::offset_from: the distance between two positions, None (-1) when
\* the base lies beyond
offset_from(txpos, base) == IF txpos >= base THEN txpos - base ELSE -1

FindResult(ret, height, offset, hdr) ==
    [ret |-> ret, height |-> height, offset |-> offset, indexed_header |-> hdr]

(***************************************************************************)
(* Chain::find_by_txpos, given the outcome r of the binary search.         *)
(* ret: "none" = None, "some" = Some(Location), "panic" = the call aborts. *)
(***************************************************************************)
find_by_txpos(rs, txpos, r, checks) ==
    LET height == find_height(r)
        idx == prev_index(height, checks)
        prev_pos == prev_pos_of(rs, idx)
        offset == offset_from(txpos, prev_pos)
    IN  IF ~has_height(rs, height) THEN FindResult("none", -1, -1, NoHeader)
        ELSE IF idx < 0 THEN FindResult("panic", -1, -1, NoHeader)
        ELSE IF ~(txpos >= prev_pos) THEN FindResult("panic", -1, -1, NoHeader)
        ELSE IF offset < 0 THEN FindResult("panic", -1, -1, NoHeader)
        ELSE FindResult("some", height, offset, get_by_height(rs, height))

(***************************************************************************)
(* The record of the last operation (a history variable).                  *)
(***************************************************************************)
Op(op, row, txpos, before, res, prePopLen) ==
    [op |-> op, row |-> row, txpos |-> txpos, before |-> before,
     ret |-> res.ret, height |-> res.height, offset |-> res.offset,
     indexed_header |-> res.indexed_header, prePopLen |-> prePopLen]

Done(ret) == FindResult(ret, -1, -1, NoHeader)

\* the hashes of the rows
HashesOf(rs) == {rs[i].hash : i \in 1..Len(rs)}

\* the headers an index can hand to the chain after rows rs: a hash that no
\* row has yet (a block hash names one header), any other parent hash, and
\* an end-position that adds 0..MaxTx transactions
NextHeaders(rs) ==
    {hd \in {Header(h, p, next_txpos(rs) + n) :
                h \in Hashes \ HashesOf(rs), p \in {all_zeros} \cup Hashes,
                n \in 0..MaxTx} :
        hd.hash # hd.prev_blockhash}

\* the positions looked up: every position of the chain, the position just
\* past the tip and one beyond it
Positions(rs) == 0..(next_txpos(rs) + 1)

(***************************************************************************)
(* Specification Spec: the Chain object.                                   *)
(***************************************************************************)
ChainInit ==
    /\ rows = <<>>
    /\ overflow_checks \in BOOLEAN
    /\ aborted = FALSE
    /\ pc = "new"
    /\ last = Op("init", NoHeader, 0, <<>>, Done("ok"), -1)

\* no Chain call is under way: the chain part of the other specifications
ChainIdle ==
    /\ rows = <<>>
    /\ overflow_checks = FALSE
    /\ aborted = FALSE
    /\ pc = "ready"
    /\ last = Op("init", NoHeader, 0, <<>>, Done("ok"), -1)

\* Chain::new, lines 14-17: one iteration of the verification loop over the
\* loaded rows; rows holds the prefix verified so far
Chain_new_row ==
    /\ pc = "new" /\ ~aborted /\ Len(rows) < MaxLen
    /\ \E row \in NextHeaders(rows) :
        IF new_assert(tip_hash(rows), row)
        THEN /\ rows' = Append(rows, row)
             /\ last' = Op("new_row", row, 0, rows, Done("ok"), -1)
             /\ UNCHANGED <<aborted, pc>>
        ELSE /\ aborted' = TRUE
             /\ last' = Op("new_row", row, 0, rows, Done("panic"), -1)
             /\ UNCHANGED <<rows, pc>>
    /\ UNCHANGED <<overflow_checks, replayVars, cacheVars, toolVars>>

\* Chain::new, lines 18-19: the loop is over, Self { rows }
Chain_new ==
    /\ pc = "new" /\ ~aborted
    /\ pc' = "ready"
    /\ last' = Op("new", NoHeader, 0, rows, Done("ok"), -1)
    /\ UNCHANGED <<rows, overflow_checks, aborted, replayVars, cacheVars, toolVars>>

\* Chain::add(row)
Chain_add ==
    /\ pc = "ready" /\ ~aborted /\ Len(rows) < MaxLen
    /\ \E row \in NextHeaders(rows) :
        LET prePop == IF last.op = "pop" /\ last.ret = "some"
                      THEN Len(last.before) ELSE -1
        IN  IF add_assert(rows, row)
            THEN /\ rows' = add_push(rows, row)
                 /\ last' = Op("add", row, 0, rows, Done("ok"), prePop)
                 /\ UNCHANGED aborted
            ELSE /\ aborted' = TRUE
                 /\ last' = Op("add", row, 0, rows, Done("panic"), prePop)
                 /\ UNCHANGED rows
    /\ UNCHANGED <<overflow_checks, pc, replayVars, cacheVars, toolVars>>

\* Chain::pop()
Chain_pop ==
    /\ pc = "ready" /\ ~aborted
    /\ rows' = pop_rows(rows)
    /\ last' = Op("pop", pop_ret(rows), 0, rows,
                  Done(IF pop_ret(rows) = NoHeader THEN "none" ELSE "some"), -1)
    /\ UNCHANGED <<overflow_checks, aborted, pc, replayVars, cacheVars, toolVars>>

\* Chain::find_by_txpos(txpos)
Chain_find_by_txpos ==
    /\ pc = "ready" /\ ~aborted
    /\ \E txpos \in Positions(rows) :
       \E r \in binary_search_by_key(rows, txpos) :
        LET res == find_by_txpos(rows, txpos, r, overflow_checks)
        IN  /\ last' = Op("find", NoHeader, txpos, rows, res, -1)
            /\ aborted' = (res.ret = "panic")
    /\ UNCHANGED <<rows, overflow_checks, pc, replayVars, cacheVars, toolVars>>

(***************************************************************************)
(* Status::print_history: the ledger replay.                               *)
(***************************************************************************)
\* longest Location set replayed
MaxLocs == 3
\* the numbers of outputs a transaction of the history has
OutputCounts == 1..2
\* the numbers of inputs a transaction of the history has
InputCounts == 1..1

\* output scripts; a script is watched when it is a key of Status.map
Scripts == {"A", "B"}

\* the key sets of Status.map explored ({} makes print_history return at once)
WatchedSets == {{}, {"A"}, {"A", "B"}}

\* output values in satoshi: 0.50000000 and 1.00000000 BTC
Amounts == {50000000, 100000000}

\* i64::MAX, as far as the model checker's integers reach (really 2^63 - 1)
I64_MAX == 2147483647

\* satoshi per bitcoin, the divisor of SignedAmount::to_btc
SAT_PER_BTC == 100000000

TxOut(s, v) == [script_pubkey |-> s, value |-> v]

TxOuts == {TxOut(s, v) : s \in Scripts, v \in Amounts}

OutPoint(t, n) == [txid |-> t, vout |-> n]

\* an outpoint of a transaction outside the replayed history (a coinbase's
\* null outpoint, or an output of a transaction that touches no watched
\* script): it is never a key of unspent
ForeignOutPoint == OutPoint(0, 0)

Tx(ins, outs) == [input |-> ins, output |-> outs]

\* HashMap::new()
EmptyMap == [k \in {} |-> 0]

\* HashMap::insert: an existing key's value is replaced
map_insert(m, k, v) == [x \in DOMAIN m \cup {k} |-> IF x = k THEN v ELSE m[x]]

\* HashMap::remove: the map without the key
map_remove(m, k) == [x \in DOMAIN m \ {k} |-> m[x]]

\* Transaction::compute_txid: a hash of the transaction. A chain holds no two
\* transactions of the same id while outputs of the first are unspent, so
\* the transaction of each Location has an id of its own: the number of the
\* Location in the set.
compute_txid(n) == n + 1

\* Amount::to_signed: None (-1) above i64::MAX
to_signed(v) == IF v > I64_MAX THEN -1 ELSE v

\* a replay that forgets to debit a spent output
debit_forgotten(delta, spent) == delta

\* line 170: delta -= spent
debit(delta, spent) == delta - to_signed(spent)

\* line 174: self.map.contains_key(txo.script_pubkey.as_script())
is_watched(keys, script) == script \in keys

\* lines 168-172: the loop over tx.input, from input i on
RECURSIVE spend_inputs(_, _, _, _)
spend_inputs(unsp, delta, ins, i) ==
    IF i > Len(ins) THEN [unspent |-> unsp, delta |-> delta]
    ELSE IF ins[i] \in DOMAIN unsp
         THEN spend_inputs(map_remove(unsp, ins[i]), debit(delta, unsp[ins[i]]),
                           ins, i + 1)
         ELSE spend_inputs(unsp, delta, ins, i + 1)

\* lines 173-181: the loop over tx.output, from output n (0-based) on
RECURSIVE credit_outputs(_, _, _, _, _, _)
credit_outputs(unsp, delta, keys, txid, outs, n) ==
    IF n >= Len(outs) THEN [unspent |-> unsp, delta |-> delta]
    ELSE IF is_watched(keys, outs[n + 1].script_pubkey)
         THEN credit_outputs(map_insert(unsp, OutPoint(txid, n), outs[n + 1].value),
                             delta + to_signed(outs[n + 1].value),
                             keys, txid, outs, n + 1)
         ELSE credit_outputs(unsp, delta, keys, txid, outs, n + 1)

\* lines 167-181: the delta and the working set after one transaction
replay_tx(unsp, keys, txid, tx) ==
    LET spent == spend_inputs(unsp, 0, tx.input, 1)
    IN  credit_outputs(spent.unspent, spent.delta, keys, txid, tx.output, 0)

\* the decimal digits of n, k of them, zero-padded
RECURSIVE Digits(_, _)
Digits(n, k) ==
    IF k = 0 THEN "" ELSE Digits(n \div 10, k - 1) \o ToString(n % 10)

Abs(n) == IF n < 0 THEN -n ELSE n

\* "{:.8}" of to_btc(): the bitcoin value with eight decimals
Fixed8(sat) ==
    ToString(Abs(sat) \div SAT_PER_BTC) \o "." \o Digits(Abs(sat) % SAT_PER_BTC, 8)

\* a delta column printed without the explicit plus sign
fmt_delta_unsigned(sat) == (IF sat < 0 THEN "-" ELSE "") \o Fixed8(sat)

\* line 192: format!("{:+.8}", delta.to_btc())
fmt_delta(sat) == (IF sat < 0 THEN "-" ELSE "+") \o Fixed8(sat)

\* line 193: format!("{:.8}", balance.to_btc())
fmt_balance(sat) == (IF sat < 0 THEN "-" ELSE "") \o Fixed8(sat)

\* lines 183-196: the Row pushed for a transaction
Row(txid, delta, bal) ==
    [txid |-> txid, delta |-> fmt_delta(delta), balance |-> fmt_balance(bal)]

\* the inputs a transaction of the history can have: each a key of the
\* working set or an outpoint outside it
InputLists(unsp) ==
    UNION {[1..n -> DOMAIN unsp \cup {ForeignOutPoint}] : n \in InputCounts}

OutputLists == UNION {[1..n -> TxOuts] : n \in OutputCounts}

\* the transactions the byte-fetch can return for the next Location
NextTxs(unsp) ==
    {Tx(ins, outs) : ins \in InputLists(unsp), outs \in OutputLists}

\* the three-block history: block 0 pays 1.00000000 to A, block 1 spends
\* that output entirely to the other script, block 2 pays 0.50000000 to A
E2ETx(k) ==
    CASE k = 1 -> Tx(<<ForeignOutPoint>>, <<TxOut("A", 100000000)>>)
      [] k = 2 -> Tx(<<OutPoint(compute_txid(0), 0)>>, <<TxOut("B", 100000000)>>)
      [] k = 3 -> Tx(<<ForeignOutPoint>>, <<TxOut("A", 50000000)>>)

\* the history so far is the first k + 1 blocks of the three-block history
E2ENext(k, tx) == IF k \in 0..2 /\ tx = E2ETx(k + 1) THEN k + 1 ELSE -1

RECURSIVE SumOf(_)
SumOf(m) ==
    IF DOMAIN m = {} THEN 0
    ELSE LET k == CHOOSE x \in DOMAIN m : TRUE
         IN  m[k] + SumOf(map_remove(m, k))

ReplayIdle ==
    /\ map_keys = {}
    /\ e2e = 0
    /\ unspent = EmptyMap
    /\ balance = 0
    /\ out_rows = <<>>
    /\ rpc = "done"

ReplayInit ==
    /\ map_keys \in WatchedSets
    /\ e2e = 0
    /\ unspent = EmptyMap
    /\ balance = 0
    /\ out_rows = <<>>
    /\ rpc = "start"

\* the locals of print_history are dropped when it returns
ReplayReturn(how) ==
    /\ rpc' = how
    /\ e2e' = 0
    /\ unspent' = EmptyMap
    /\ balance' = 0
    /\ out_rows' = <<>>
    /\ UNCHANGED map_keys

\* lines 148-159: the early returns and the locals of the loop
PrintHistory_begin ==
    /\ rpc = "start"
    /\ \/ /\ map_keys = {}
          /\ ReplayReturn("done")
       \/ /\ map_keys # {}
          /\ \E locations_is_empty \in BOOLEAN :
                IF locations_is_empty
                THEN ReplayReturn("done")
                ELSE /\ rpc' = "loop"
                     /\ UNCHANGED <<map_keys, e2e, unspent, balance, out_rows>>
    /\ UNCHANGED <<chainVars, cacheVars, toolVars>>

\* lines 160-197: one iteration of the loop over self.locations
PrintHistory_loop ==
    /\ rpc = "loop" /\ Len(out_rows) < MaxLocs
    /\ \/ \* index.get_tx_bytes(loc)? fails
          ReplayReturn("error")
       \/ \* deserialize(&tx_bytes).expect("bad tx bytes")
          ReplayReturn("panic")
       \/ \E tx \in NextTxs(unspent) :
            LET txid == compute_txid(Len(out_rows))
                res == replay_tx(unspent, map_keys, txid, tx)
            IN  /\ e2e' = E2ENext(e2e, tx)
                /\ unspent' = res.unspent
                /\ balance' = balance + res.delta
                /\ out_rows' = Append(out_rows, Row(txid, res.delta, balance + res.delta))
                /\ UNCHANGED <<map_keys, rpc>>
    /\ UNCHANGED <<chainVars, cacheVars, toolVars>>

\* lines 199-232: the set is exhausted (it held at least one Location)
PrintHistory_end ==
    /\ rpc = "loop" /\ Len(out_rows) >= 1
    /\ ReplayReturn("done")
    /\ UNCHANGED <<chainVars, cacheVars, toolVars>>

(***************************************************************************)
(* Status::sync_sqlite: the cache sync, and the passes of the main loop.   *)
(***************************************************************************)
\* most passes begun in one behaviour
MaxPasses == 2

\* the scripts of Status.map
CacheScripts == {"A", "B"}

\* the chain snapshots a pass can see: the block at height 0 has hash 1, the
\* tip at height 1 has hash 2 or, after a reorg, hash 3
TipHashes == {2, 3}

Location(height, offset, hash) == [height |-> height, offset |-> offset, hash |-> hash]

\* the Locations of a snapshot: two transactions in block 0, one in the tip
SnapshotLocations(tip) ==
    {Location(0, 0, 1), Location(0, 1, 1), Location(1, 0, tip)}

\* index.find(script): script "A" can have a transaction at every Location of
\* the snapshot, script "B" at every one but the first
FindResults(tip, sc) ==
    IF sc = "A" THEN SUBSET SnapshotLocations(tip)
    ELSE SUBSET (SnapshotLocations(tip) \ {Location(0, 0, 1)})

\* Status::create: a map from each script to the Locations find returned
Statuses ==
    UNION {{m \in [CacheScripts -> SUBSET SnapshotLocations(tip)] :
                \A sc \in CacheScripts : m[sc] \in FindResults(tip, sc)} : tip \in TipHashes}

NoStatus == [sc \in CacheScripts |-> {}]

\* Status.locations: the BTreeSet of all Locations of the map
locations_of(m) == UNION {m[sc] : sc \in DOMAIN m}

\* the order of a BTreeSet<Location>: by height, then offset
LocLess(a, b) == a.height < b.height \/ (a.height = b.height /\ a.offset < b.offset)

RECURSIVE Sorted(_)
Sorted(S) ==
    IF S = {} THEN <<>>
    ELSE LET m == CHOOSE x \in S : \A y \in S \ {x} : LocLess(x, y)
         IN  <<m>> \o Sorted(S \ {m})

\* lines 94-96: the pairs of one script, in the order of its Vec
PairsOf(m, sc) == LET ls == Sorted(m[sc])
                  IN  [i \in 1..Len(ls) |-> [script |-> sc, loc |-> ls[i]]]

\* lines 94-96: the pairs of the whole map; a HashMap iterates in no
\* particular order
RECURSIVE PairOrders(_, _)
PairOrders(m, scs) ==
    IF scs = {} THEN {<<>>}
    ELSE UNION {{PairsOf(m, sc) \o rest : rest \in PairOrders(m, scs \ {sc})} : sc \in scs}

\* ScriptHash::new(script).to_string()
script_hash_hex(sc) == "sh(" \o sc \o ")"

\* loc.indexed_header.hash().to_string()
block_hash_hex(loc) == ToString(loc.hash)

\* index.get_tx_bytes(loc): the bytes of the transaction at the Location
get_tx_bytes(loc) == "tx" \o ToString(loc.hash) \o "." \o ToString(loc.offset)

\* bitcoin::Txid::from(parsed.parsed().txid()).to_string()
txid_of(tx_bytes) == "id(" \o tx_bytes \o ")"

NULL == "NULL"

EmptyDb == [history |-> {}, txcache |-> {}]

HistoryRow(loc, sc) ==
    [script_hash |-> script_hash_hex(sc), block_hash |-> block_hash_hex(loc),
     block_offset |-> loc.offset, block_height |-> loc.height]

TxcacheRow(bh, off, id, bytes) ==
    [block_hash |-> bh, block_offset |-> off, tx_id |-> id, tx_bytes |-> bytes]

\* PRIMARY KEY (script_hash, block_hash, block_offset)
HistoryKey(r) == <<r.script_hash, r.block_hash, r.block_offset>>

\* PRIMARY KEY (block_hash, block_offset)
TxcacheKey(r) == <<r.block_hash, r.block_offset>>

Changed(rs, n) == [rows |-> rs, changed |-> n]

\* line 93: INSERT OR IGNORE INTO history VALUES (?1, ?2, ?3, ?4)
insert_history(rs, row) ==
    IF \E r \in rs : HistoryKey(r) = HistoryKey(row)
    THEN Changed(rs, 0)
    ELSE Changed(rs \cup {row}, 1)

\* an INSERT OR REPLACE in place of INSERT OR IGNORE
insert_txcache_replace(rs, bh, off) ==
    Changed({r \in rs : TxcacheKey(r) # <<bh, off>>}
                \cup {TxcacheRow(bh, off, NULL, NULL)}, 1)

\* lines 116-117: INSERT OR IGNORE INTO txcache(block_hash, block_offset)
insert_txcache(rs, bh, off) ==
    IF \E r \in rs : TxcacheKey(r) = <<bh, off>>
    THEN Changed(rs, 0)
    ELSE Changed(rs \cup {TxcacheRow(bh, off, NULL, NULL)}, 1)

\* an UPDATE whose WHERE clause matches no row
update_txcache_no_match(rs, bh, off, bytes, id) == Changed(rs, 0)

\* lines 118-120: UPDATE txcache SET tx_bytes = ?3, tx_id = ?4 WHERE ...
update_txcache(rs, bh, off, bytes, id) ==
    LET hit == {r \in rs : TxcacheKey(r) = <<bh, off>>}
    IN  Changed((rs \ hit) \cup {TxcacheRow(bh, off, id, bytes) : r \in hit},
                Cardinality(hit))

\* a fetch that does not look at the insert's result
needs_fetch_always(n) == TRUE

\* a pass that never fetches
needs_fetch_never(n) == FALSE

\* line 124: if inserted > 0
needs_fetch(n) == n > 0

\* a cache file that is created anew at every open
open_connection_truncate(cfg, d) == EmptyDb

\* line 77: Connection::open(path): the file's committed tables, or a new
\* in-memory database
open_connection(cfg, d) == IF cfg = "file" THEN d ELSE EmptyDb

CacheIdle ==
    /\ status_cache = "file"
    /\ disk = EmptyDb
    /\ db = EmptyDb
    /\ cstatus = NoStatus
    /\ hist_todo = <<>>
    /\ tx_todo = <<>>
    /\ history_rows = 0
    /\ txcache_rows = 0
    /\ cpc = "exited"
    /\ fetched = <<>>
    /\ inserted = {}
    /\ ever_committed = {}
    /\ repeat = FALSE
    /\ passes = 0
    /\ opened = EmptyDb
    /\ broken = NoStatus
    /\ rerun = FALSE

\* main, lines 313-322: the cache is a path or ":memory:"
CacheInit ==
    /\ status_cache \in {"file", ":memory:"}
    /\ disk = EmptyDb
    /\ db = EmptyDb
    /\ cstatus = NoStatus
    /\ hist_todo = <<>>
    /\ tx_todo = <<>>
    /\ history_rows = 0
    /\ txcache_rows = 0
    /\ cpc = "idle"
    /\ fetched = <<>>
    /\ inserted = {}
    /\ ever_committed = {}
    /\ repeat = FALSE
    /\ passes = 0
    /\ opened = EmptyDb
    /\ broken = NoStatus
    /\ rerun = FALSE

\* main line 328 and sync_sqlite lines 75-93: the chain advanced, a Status is
\* created, the connection opened and the transaction begun
SyncSqlite_begin ==
    /\ cpc = "idle" /\ passes < MaxPasses
    /\ \E m \in Statuses : \E order \in PairOrders(m, CacheScripts) :
        /\ cstatus' = m
        /\ hist_todo' = order
        /\ repeat' = (m = cstatus /\ m # NoStatus)
        /\ rerun' = (m = broken /\ m # NoStatus)
    /\ db' = open_connection(status_cache, disk)
    /\ opened' = open_connection(status_cache, disk)
    /\ tx_todo' = <<>>
    /\ history_rows' = 0
    /\ txcache_rows' = 0
    /\ fetched' = <<>>
    /\ inserted' = {}
    /\ cpc' = "history"
    /\ passes' = passes + 1
    /\ broken' = NoStatus
    /\ UNCHANGED <<status_cache, disk, ever_committed>>
    /\ UNCHANGED <<chainVars, replayVars, toolVars>>

\* lines 94-101: one INSERT OR IGNORE of the history loop
SyncSqlite_history_row ==
    /\ cpc = "history" /\ hist_todo # <<>>
    /\ LET p == Head(hist_todo)
           res == insert_history(db.history, HistoryRow(p.loc, p.script))
       IN  /\ db' = [db EXCEPT !.history = res.rows]
           /\ history_rows' = history_rows + res.changed
    /\ hist_todo' = Tail(hist_todo)
    /\ UNCHANGED <<status_cache, disk, cstatus, tx_todo, txcache_rows, cpc, fetched,
                   inserted, ever_committed, repeat, passes, opened, broken, rerun>>
    /\ UNCHANGED <<chainVars, replayVars, toolVars>>

\* lines 103-120: the history loop is over; the txcache table and statements
SyncSqlite_txcache_begin ==
    /\ cpc = "history" /\ hist_todo = <<>>
    /\ tx_todo' = Sorted(locations_of(cstatus))
    /\ cpc' = "txcache"
    /\ UNCHANGED <<status_cache, disk, db, cstatus, hist_todo, history_rows,
                   txcache_rows, fetched, inserted, ever_committed, repeat, passes,
                   opened, broken, rerun>>
    /\ UNCHANGED <<chainVars, replayVars, toolVars>>

\* lines 121-132: one iteration of the loop over self.locations
SyncSqlite_txcache_row ==
    /\ cpc = "txcache" /\ tx_todo # <<>>
    /\ LET loc == Head(tx_todo)
           bh == block_hash_hex(loc)
           ins == insert_txcache(db.txcache, bh, loc.offset)
           tx_bytes == get_tx_bytes(loc)
           upd == update_txcache(ins.rows, bh, loc.offset, tx_bytes, txid_of(tx_bytes))
       IN  /\ inserted' = IF ins.changed > 0 THEN inserted \cup {loc} ELSE inserted
           /\ IF needs_fetch(ins.changed)
              THEN /\ fetched' = Append(fetched, loc)
                   /\ db' = [db EXCEPT !.txcache = upd.rows]
                   /\ txcache_rows' = txcache_rows + upd.changed
              ELSE /\ db' = [db EXCEPT !.txcache = ins.rows]
                   /\ UNCHANGED <<fetched, txcache_rows>>
    /\ tx_todo' = Tail(tx_todo)
    /\ UNCHANGED <<status_cache, disk, cstatus, hist_todo, history_rows, cpc,
                   ever_committed, repeat, passes, opened, broken, rerun>>
    /\ UNCHANGED <<chainVars, replayVars, toolVars>>

\* lines 134-140: COMMIT, and the connection is dropped on return
SyncSqlite_commit ==
    /\ cpc = "txcache" /\ tx_todo = <<>>
    /\ disk' = IF status_cache = "file" THEN db ELSE disk
    /\ ever_committed' = ever_committed \cup {TxcacheKey(r) : r \in db.txcache}
    /\ db' = EmptyDb
    /\ cpc' = "idle"
    /\ UNCHANGED <<status_cache, cstatus, hist_todo, tx_todo, history_rows,
                   txcache_rows, fetched, inserted, repeat, passes, opened, broken,
                   rerun>>
    /\ UNCHANGED <<chainVars, replayVars, toolVars>>

\* sync_sqlite is between BEGIN and COMMIT
InPass == cpc \in {"history", "txcache"}

\* a connection whose drop keeps what its open transaction wrote
rollback_on_drop_keeps(d, working) == working

\* the connection is dropped with its transaction open (an early return by ?
\* or the unwinding of a panic): SQLite rolls the transaction back and the
\* file holds what was committed before
rollback_on_drop(d, working) == d

\* what the file holds once the pass has failed with the tables at `working`
AfterFailure(working) ==
    IF status_cache = "file" THEN rollback_on_drop(disk, working) ELSE disk

\* the tables after the placeholder insert of the Location at the head of
\* tx_todo (line 123)
WithPlaceholder ==
    LET loc == Head(tx_todo)
    IN  [db EXCEPT !.txcache =
            insert_txcache(db.txcache, block_hash_hex(loc), loc.offset).rows]

\* the number of rows the placeholder insert of the Location at the head of
\* tx_todo adds
PlaceholderAdded ==
    LET loc == Head(tx_todo)
    IN  insert_txcache(db.txcache, block_hash_hex(loc), loc.offset).changed

\* the pass ends at `how` with the tables at `working`
SyncSqlite_failed(how, working) ==
    /\ cpc' = how
    /\ disk' = AfterFailure(working)
    /\ db' = EmptyDb
    /\ broken' = cstatus
    /\ cstatus' = NoStatus
    /\ hist_todo' = <<>>
    /\ tx_todo' = <<>>
    /\ history_rows' = 0
    /\ txcache_rows' = 0
    /\ fetched' = <<>>
    /\ inserted' = {}
    /\ repeat' = FALSE
    /\ rerun' = FALSE
    /\ UNCHANGED <<status_cache, ever_committed, passes, opened>>
    /\ UNCHANGED <<chainVars, replayVars, toolVars>>

\* a statement returns an error and ? leaves sync_sqlite and main: an insert
\* of the history loop (line 99), CREATE TABLE txcache or a prepare (lines
\* 104-120), the placeholder insert (line 123), the UPDATE after the fetch
\* (line 130), or COMMIT (line 134)
SyncSqlite_storage_error ==
    /\ InPass
    /\ \/ SyncSqlite_failed("error", db)
       \/ /\ cpc = "txcache" /\ tx_todo # <<>> /\ needs_fetch(PlaceholderAdded)
          /\ SyncSqlite_failed("error", WithPlaceholder)

\* lines 126-127: get_tx_bytes fails, or its bytes do not parse, and expect
\* panics
SyncSqlite_panic ==
    /\ cpc = "txcache" /\ tx_todo # <<>> /\ needs_fetch(PlaceholderAdded)
    /\ SyncSqlite_failed("panic", WithPlaceholder)

\* the process is killed from outside. An open transaction is not committed:
\* the next open of the file rolls it back.
Exit ==
    /\ cpc \in {"idle", "history", "txcache"}
    /\ cpc' = "exited"
    /\ IF cpc = "idle"
       THEN UNCHANGED <<db, cstatus, broken, rerun, hist_todo, tx_todo, history_rows,
                        txcache_rows, fetched, inserted, repeat>>
       ELSE /\ db' = EmptyDb
            /\ cstatus' = NoStatus
            /\ broken' = cstatus
            /\ rerun' = FALSE
            /\ hist_todo' = <<>>
            /\ tx_todo' = <<>>
            /\ history_rows' = 0
            /\ txcache_rows' = 0
            /\ fetched' = <<>>
            /\ inserted' = {}
            /\ repeat' = FALSE
    /\ UNCHANGED <<status_cache, disk, ever_committed, passes, opened>>
    /\ UNCHANGED <<chainVars, replayVars, toolVars>>

\* main, lines 312-322: the program is started again with the same arguments
Restart ==
    /\ cpc \in {"exited", "error", "panic"}
    /\ cpc' = "idle"
    /\ UNCHANGED <<status_cache, disk, db, cstatus, hist_todo, tx_todo, history_rows,
                   txcache_rows, fetched, inserted, ever_committed, repeat, passes,
                   opened, broken, rerun>>
    /\ UNCHANGED <<chainVars, replayVars, toolVars>>

(***************************************************************************)
(* main: the outer loop.                                                   *)
(***************************************************************************)
\* most iterations of the outer loop in one behaviour
MaxIters == 3

\* most sync batches of one iteration that index blocks
MaxBatches == 2

Running == {"sync", "create", "print", "cache", "commit", "sleep"}

Terminated == {"error", "panic"}

\* a sync called while a Status is alive as well
may_sync_anywhere(at) == at \in {"sync", "print", "cache"}

\* line 324: the one place where main calls index.sync
may_sync(at) == at = "sync"

\* an Err that is logged and skipped: the iteration is abandoned, the loop goes on
on_error_skip(at) == "sleep"

\* the ? operators of lines 324, 328, 329, 330: an Err leaves main
on_error(at) == "error"

\* an updated that is never cleared
updated_after_pass_kept == TRUE

\* line 331: updated = false
updated_after_pass == FALSE

\* index.sync indexes a batch: the Chain is extended by a new block, or its
\* tip is rolled back and replaced by a new block
SyncedChains(ch, fresh) ==
    {Append(ch, fresh)} \cup
    (IF ch = <<>> THEN {} ELSE {Append(SubSeq(ch, 1, Len(ch) - 1), fresh)})

\* Status::create: the Locations borrow the headers of the Chain
LocationsIn(ch) == {Location(h - 1, 0, ch[h]) : h \in 1..Len(ch)}

MainIdle ==
    /\ mpc = "off"
    /\ updated = FALSE
    /\ iter = 0
    /\ batches = 0
    /\ last_sync = -1
    /\ stages = <<>>
    /\ index_chain = <<>>
    /\ mined = 0
    /\ mstatus = {}
    /\ txn = "none"
    /\ failed_at = "none"

\* lines 312-323: let mut updated = true, and the loop is entered
MainInit ==
    /\ mpc = "sync"
    /\ updated = TRUE
    /\ iter = 1
    /\ batches = 0
    /\ last_sync = -1
    /\ stages = <<>>
    /\ index_chain \in {<<>>, <<1>>}
    /\ mined = Len(index_chain)
    /\ mstatus = {}
    /\ txn = "none"
    /\ failed_at = "none"

\* line 324: one index.sync(1000) that returns Ok
Main_sync ==
    /\ may_sync(mpc)
    /\ \/ \* indexed_blocks > 0
          /\ batches < MaxBatches
          /\ index_chain' \in SyncedChains(index_chain, mined + 1)
          /\ mined' = mined + 1
          /\ batches' = batches + 1
          /\ last_sync' = 1
          /\ updated' = TRUE
          /\ UNCHANGED mpc
       \/ \* indexed_blocks = 0: the while loop ends
          /\ last_sync' = 0
          /\ mpc' = IF mpc = "sync" THEN (IF updated THEN "create" ELSE "sleep") ELSE mpc
          /\ UNCHANGED <<index_chain, mined, batches, updated>>
    /\ UNCHANGED <<iter, stages, mstatus, txn, failed_at>>
    /\ UNCHANGED <<chainVars, replayVars, cacheVars, histVars>>

\* line 328: Status::create returns Ok
Main_create ==
    /\ mpc = "create"
    /\ stages' = Append(stages, "create")
    /\ mstatus' = LocationsIn(index_chain)
    /\ mpc' = "print"
    /\ UNCHANGED <<updated, iter, batches, last_sync, index_chain, mined, txn, failed_at>>
    /\ UNCHANGED <<chainVars, replayVars, cacheVars, histVars>>

\* line 329: print_history returns Ok
Main_print_history ==
    /\ mpc = "print"
    /\ stages' = Append(stages, "print")
    /\ mpc' = "cache"
    /\ UNCHANGED <<updated, iter, batches, last_sync, index_chain, mined, mstatus, txn,
                   failed_at>>
    /\ UNCHANGED <<chainVars, replayVars, cacheVars, histVars>>

\* line 330, sync_sqlite lines 77-132: the connection is opened, the
\* transaction begun and the rows written
Main_sync_sqlite_begin ==
    /\ mpc = "cache"
    /\ stages' = Append(stages, "cache")
    /\ txn' = "open"
    /\ mpc' = "commit"
    /\ UNCHANGED <<updated, iter, batches, last_sync, index_chain, mined, mstatus,
                   failed_at>>
    /\ UNCHANGED <<chainVars, replayVars, cacheVars, histVars>>

\* sync_sqlite lines 134-140 and main lines 330-332: COMMIT, sync_sqlite
\* returns Ok, updated is cleared and the Status dropped
Main_sync_sqlite_end ==
    /\ mpc = "commit"
    /\ txn' = "committed"
    /\ updated' = updated_after_pass
    /\ mstatus' = {}
    /\ mpc' = "sleep"
    /\ UNCHANGED <<iter, batches, last_sync, stages, index_chain, mined, failed_at>>
    /\ UNCHANGED <<chainVars, replayVars, cacheVars, histVars>>

\* a call of the iteration fails: `what` is the call, `how` where main goes.
\* The Status and the connection are dropped; an open transaction is rolled
\* back.
Main_failed(what, how) ==
    /\ failed_at' = what
    /\ mpc' = how
    /\ stages' = IF mpc \in {"create", "print", "cache"} THEN Append(stages, mpc) ELSE stages
    /\ txn' = IF txn = "open" THEN "rolled_back" ELSE txn
    /\ mstatus' = {}
    /\ UNCHANGED <<updated, iter, batches, last_sync, index_chain, mined>>
    /\ UNCHANGED <<chainVars, replayVars, cacheVars, histVars>>

\* an Err reaches a ? of main: index.sync (line 324), index.find in
\* Status::create (lines 61, 328), get_tx_bytes in print_history (lines 162,
\* 329), a statement of sync_sqlite (line 330)
Main_error ==
    \/ /\ mpc = "sync" /\ Main_failed("sync", on_error(mpc))
    \/ /\ mpc = "create" /\ Main_failed("find", on_error(mpc))
    \/ /\ mpc = "print" /\ Main_failed("get_tx_bytes", on_error(mpc))
    \/ /\ mpc \in {"cache", "commit"} /\ Main_failed("storage", on_error(mpc))

\* an expect panics: the bytes do not deserialize in print_history (line
\* 164); get_tx_bytes fails or its bytes do not parse in sync_sqlite (lines
\* 126-127)
Main_panic ==
    \/ /\ mpc = "print" /\ Main_failed("bad tx bytes", "panic")
    \/ /\ mpc = "commit"
       /\ \E what \in {"missing tx bytes", "invalid tx"} : Main_failed(what, "panic")

\* line 333 and back to line 323: the sleep, and the next iteration
Main_sleep ==
    /\ mpc = "sleep" /\ iter < MaxIters
    /\ iter' = iter + 1
    /\ batches' = 0
    /\ last_sync' = -1
    /\ stages' = <<>>
    /\ txn' = "none"
    /\ mpc' = "sync"
    /\ UNCHANGED <<updated, index_chain, mined, mstatus, failed_at>>
    /\ UNCHANGED <<chainVars, replayVars, cacheVars, histVars>>

(***************************************************************************)
(* Status::create (the history gatherer) and the rows and table of         *)
(* Status::print_history.                                                  *)
(***************************************************************************)
\* the largest history_limit
MaxLimit == 2

\* the deltas of the rows, in satoshi
Deltas == {100000000, -50000000}

\* a Vec that keeps what it is given, in the order given
vec_push(seq, loc) == Append(seq, loc)

\* BTreeSet::insert: the set keeps one of equal elements, in ascending order
btree_insert(seq, loc) ==
    IF \E i \in 1..Len(seq) : seq[i] = loc THEN seq
    ELSE LET k == Cardinality({i \in 1..Len(seq) : LocLess(seq[i], loc)})
         IN  SubSeq(seq, 1, k) \o <<loc>> \o SubSeq(seq, k + 1, Len(seq))

\* line 63: locations.extend(values.iter())
RECURSIVE extend(_, _)
extend(seq, values) ==
    IF values = <<>> THEN seq
    ELSE extend(btree_insert(seq, Head(values)), Tail(values))

\* the answers of index.find for a script: its Locations in any order
RECURSIVE Orders(_)
Orders(S) ==
    IF S = {} THEN {<<>>}
    ELSE UNION {{<<x>> \o rest : rest \in Orders(S \ {x})} : x \in S}

FindAnswers(sc) == UNION {Orders(S) : S \in FindResults(2, sc)}

\* lines 183-196: the Row of a Location (its txid, time, ms and bytes left out)
TableRow(loc, delta, bal) ==
    [height |-> ToString(loc.height), offset |-> ToString(loc.offset),
     delta |-> fmt_delta(delta), balance |-> fmt_balance(bal)]

\* lines 31-43: Row::dots()
dots == [height |-> "...", offset |-> "...", delta |-> "...", balance |-> "..."]

\* Vec::reverse
reverse(seq) == [i \in 1..Len(seq) |-> seq[Len(seq) + 1 - i]]

\* Vec::truncate
truncate(seq, n) == IF Len(seq) > n THEN SubSeq(seq, 1, n) ELSE seq

\* a table cut before it is reversed
present_oldest(rs, limit) ==
    LET shown == reverse(truncate(rs, limit))
    IN  IF Len(rs) > limit THEN Append(shown, dots) ELSE shown

\* lines 210-215: the rows handed to the table
present(rs, limit) ==
    LET shown == truncate(reverse(rs), limit)
    IN  IF Len(rs) > limit THEN Append(shown, dots) ELSE shown

HistIdle ==
    /\ hpc = "off"
    /\ gscripts = {}
    /\ gtodo = {}
    /\ gmap = EmptyMap
    /\ glocations = <<>>
    /\ find_calls = [sc \in CacheScripts |-> 0]
    /\ htodo = <<>>
    /\ hrows = <<>>
    /\ hlocs = <<>>
    /\ hdeltas = <<>>
    /\ hbalance = 0
    /\ history_limit = 0
    /\ table = <<>>
    /\ printed = FALSE

\* main lines 313-328 and Status::create lines 56-58
HistInit ==
    /\ hpc = "create"
    /\ gscripts \in SUBSET CacheScripts
    /\ gtodo = gscripts
    /\ gmap = EmptyMap
    /\ glocations = <<>>
    /\ find_calls = [sc \in CacheScripts |-> 0]
    /\ htodo = <<>>
    /\ hrows = <<>>
    /\ hlocs = <<>>
    /\ hdeltas = <<>>
    /\ hbalance = 0
    /\ history_limit \in 0..MaxLimit
    /\ table = <<>>
    /\ printed = FALSE

\* lines 59-65: one iteration of the loop over the scripts
Create_find ==
    /\ hpc = "create" /\ gtodo # {}
    /\ \E sc \in gtodo :
        /\ find_calls' = [find_calls EXCEPT ![sc] = @ + 1]
        /\ gtodo' = gtodo \ {sc}
        /\ \/ \* index.find(key)? returns Err
              /\ hpc' = "error"
              /\ UNCHANGED <<gmap, glocations>>
           \/ \E values \in FindAnswers(sc) :
              /\ glocations' = extend(glocations, values)
              /\ gmap' = map_insert(gmap, sc, values)
              /\ UNCHANGED hpc
    /\ UNCHANGED <<gscripts, htodo, hrows, hlocs, hdeltas, hbalance, history_limit, table,
                   printed>>
    /\ UNCHANGED <<chainVars, replayVars, cacheVars, mainVars>>

\* lines 66-72: Ok(Self { map, locations })
Create_return ==
    /\ hpc = "create" /\ gtodo = {}
    /\ hpc' = "print"
    /\ UNCHANGED <<gscripts, gtodo, gmap, glocations, find_calls, htodo, hrows, hlocs,
                   hdeltas, hbalance, history_limit, table, printed>>
    /\ UNCHANGED <<chainVars, replayVars, cacheVars, mainVars>>

\* print_history lines 148-159: the early returns and the locals
Table_begin ==
    /\ hpc = "print"
    /\ IF DOMAIN gmap = {} \/ glocations = <<>>
       THEN hpc' = "done" /\ UNCHANGED htodo
       ELSE hpc' = "loop" /\ htodo' = glocations
    /\ UNCHANGED <<gscripts, gtodo, gmap, glocations, find_calls, hrows, hlocs, hdeltas,
                   hbalance, history_limit, table, printed>>
    /\ UNCHANGED <<chainVars, replayVars, cacheVars, mainVars>>

\* print_history lines 160-197: one iteration of the loop; the delta is what
\* the replay of the transaction gives
Table_row ==
    /\ hpc = "loop" /\ htodo # <<>>
    /\ \/ \* index.get_tx_bytes(loc)? returns Err
          /\ hpc' = "error"
          /\ UNCHANGED <<htodo, hrows, hlocs, hdeltas, hbalance>>
       \/ \E delta \in Deltas :
          LET loc == Head(htodo)
          IN  /\ hbalance' = hbalance + delta
              /\ hrows' = Append(hrows, TableRow(loc, delta, hbalance + delta))
              /\ hlocs' = Append(hlocs, loc)
              /\ hdeltas' = Append(hdeltas, delta)
              /\ htodo' = Tail(htodo)
              /\ UNCHANGED hpc
    /\ UNCHANGED <<gscripts, gtodo, gmap, glocations, find_calls, history_limit, table,
                   printed>>
    /\ UNCHANGED <<chainVars, replayVars, cacheVars, mainVars>>

\* print_history lines 199-231: the table
Table_print ==
    /\ hpc = "loop" /\ htodo = <<>>
    /\ IF history_limit > 0
       THEN table' = present(hrows, history_limit) /\ printed' = TRUE
       ELSE UNCHANGED <<table, printed>>
    /\ hpc' = "done"
    /\ UNCHANGED <<gscripts, gtodo, gmap, glocations, find_calls, htodo, hrows, hlocs,
                   hdeltas, hbalance, history_limit>>
    /\ UNCHANGED <<chainVars, replayVars, cacheVars, mainVars>>

(***************************************************************************)
(* The specifications.                                                     *)
(***************************************************************************)
Init == ChainInit /\ ReplayIdle /\ CacheIdle /\ MainIdle /\ HistIdle

Next ==
    \/ Chain_new_row
    \/ Chain_new
    \/ Chain_add
    \/ Chain_pop
    \/ Chain_find_by_txpos

Spec == Init /\ [][Next]_vars

InitReplay == ChainIdle /\ ReplayInit /\ CacheIdle /\ MainIdle /\ HistIdle

NextReplay ==
    \/ PrintHistory_begin
    \/ PrintHistory_loop
    \/ PrintHistory_end

SpecReplay == InitReplay /\ [][NextReplay]_vars

InitCache == ChainIdle /\ ReplayIdle /\ CacheInit /\ MainIdle /\ HistIdle

NextCache ==
    \/ SyncSqlite_begin
    \/ SyncSqlite_history_row
    \/ SyncSqlite_txcache_begin
    \/ SyncSqlite_txcache_row
    \/ SyncSqlite_commit
    \/ SyncSqlite_storage_error
    \/ SyncSqlite_panic
    \/ Exit
    \/ Restart

SpecCache == InitCache /\ [][NextCache]_vars

InitMain == ChainIdle /\ ReplayIdle /\ CacheIdle /\ MainInit /\ HistIdle

NextMain ==
    \/ Main_sync
    \/ Main_create
    \/ Main_print_history
    \/ Main_sync_sqlite_begin
    \/ Main_sync_sqlite_end
    \/ Main_error
    \/ Main_panic
    \/ Main_sleep

SpecMain == InitMain /\ [][NextMain]_vars

InitHistory == ChainIdle /\ ReplayIdle /\ CacheIdle /\ MainIdle /\ HistInit

NextHistory ==
    \/ Create_find
    \/ Create_return
    \/ Table_begin
    \/ Table_row
    \/ Table_print

SpecHistory == InitHistory /\ [][NextHistory]_vars

(***************************************************************************)
(* Properties of the Chain.                                                *)
(***************************************************************************)
\* the parent-hash links of a sequence of headers, stated on the rows alone
HashLinked(rs) ==
    /\ Len(rs) > 0 => rs[1].prev_blockhash = all_zeros
    /\ \A i \in 2..Len(rs) : rs[i].prev_blockhash = rs[i - 1].hash

\* the end-position of the header at a height, 0 below the first
EndPos(rs, height) == IF height < 0 THEN 0 ELSE rs[height + 1].next_txpos

\* C1: after any sequence of new, add and pop that does not abort, the
\* first header's parent is the zero hash, every later header's parent is
\* the hash of the header before it, the header a Location of height h
\* refers to is the one at index h, and tip_hash is the last header's hash.
C1_HashLinkInvariant ==
    /\ HashLinked(rows)
    /\ Len(rows) > 0 => tip_hash(rows) = rows[Len(rows)].hash
    /\ Len(rows) = 0 => tip_hash(rows) = all_zeros
    /\ tip_height(rows) = Len(rows) - 1
    /\ (last.op = "find" /\ last.ret = "some") =>
          /\ last.height \in 0..(Len(rows) - 1)
          /\ last.indexed_header = rows[last.height + 1]

\* C1 witness: a chain of three headers that went through new, pop and add
C1_Witness ==
    /\ pc = "ready" /\ ~aborted
    /\ Len(rows) = 3
    /\ last.op = "add" /\ last.prePopLen = 3

\* the parent hash add must see: the hash of the last row, or the zero hash
ExpectedParent(rs) == IF rs = <<>> THEN all_zeros ELSE rs[Len(rs)].hash

\* C2: add aborts whenever the header's parent hash differs from the tip
\* hash (the zero hash on an empty chain) and stores nothing; when it
\* matches, the header becomes the tip and the earlier rows are unchanged.
C2_AddChecksParent ==
    last.op = "add" =>
        IF last.row.prev_blockhash # ExpectedParent(last.before)
        THEN aborted /\ last.ret = "panic" /\ rows = last.before
        ELSE /\ ~aborted /\ last.ret = "ok"
             /\ Len(rows) = Len(last.before) + 1
             /\ rows[Len(rows)] = last.row
             /\ SubSeq(rows, 1, Len(last.before)) = last.before

\* C2 witness: an add on a non-empty chain refused for its parent hash
C2_Witness ==
    /\ last.op = "add" /\ last.ret = "panic"
    /\ Len(last.before) >= 1
    /\ last.row.prev_blockhash # last.before[Len(last.before)].hash

\* C3 (as claimed): for non-decreasing end-positions and 0 <= p <
\* next_position(), find_by_txpos returns a Location with
\* end[height-1] <= p < end[height] and offset = p - end[height-1].
C3_ResolveInRange ==
    (last.op = "find" /\ last.txpos < next_txpos(last.before)) =>
        /\ last.ret = "some"
        /\ last.height \in 0..(Len(last.before) - 1)
        /\ EndPos(last.before, last.height - 1) <= last.txpos
        /\ last.txpos < EndPos(last.before, last.height)
        /\ last.offset = last.txpos - EndPos(last.before, last.height - 1)

\* C4 (as claimed): a position at or beyond next_position() makes
\* find_by_txpos fail fatally instead of returning "not found".
C4_BeyondIsFatal ==
    (last.op = "find" /\ last.txpos >= next_txpos(last.before)) =>
        last.ret = "panic"

\* the tip's end-position is not shared with the header below it
TipEndUnique(rs) ==
    Len(rs) >= 2 => rs[Len(rs) - 1].next_txpos < rs[Len(rs)].next_txpos

\* C4 (amended): for a position beyond next_position(), or equal to it when
\* the tip's end-position is greater than its predecessor's, find_by_txpos
\* returns None, the ordinary "not found" value, and does not abort.
C4_BeyondIsNone ==
    (/\ last.op = "find"
     /\ \/ last.txpos > next_txpos(last.before)
        \/ last.txpos = next_txpos(last.before) /\ TipEndUnique(last.before))
    => (last.ret = "none" /\ ~aborted)

\* C4 witness: the tip's end-position itself, looked up on a chain of two
C4_Witness ==
    /\ last.op = "find" /\ last.ret = "none"
    /\ Len(last.before) = 2
    /\ last.txpos = next_txpos(last.before)
    /\ last.txpos > 0

\* C5 (as claimed): pop removes exactly the tip of a non-empty chain, and
\* fails on an empty chain.
C5_PopEmptyFails ==
    last.op = "pop" =>
        IF last.before = <<>>
        THEN aborted
        ELSE rows = SubSeq(last.before, 1, Len(last.before) - 1)

\* C5 (amended): pop removes exactly the tip of a non-empty chain and
\* returns it; on an empty chain it returns None, leaves the chain empty
\* and does not abort.
C5_PopEmptyIsNone ==
    last.op = "pop" =>
        IF last.before = <<>>
        THEN rows = <<>> /\ last.ret = "none" /\ ~aborted
        ELSE /\ rows = SubSeq(last.before, 1, Len(last.before) - 1)
             /\ last.ret = "some"
             /\ last.row = last.before[Len(last.before)]
             /\ ~aborted

\* C5 witness: a pop on the empty chain that followed pops of a longer one
C5_Witness ==
    /\ last.op = "pop" /\ last.before = <<>> /\ last.ret = "none"

\* C6: pop on a non-empty chain followed by add(other), other's parent
\* being the hash of the header below the removed tip (the zero hash if
\* none), leaves the chain hash-linked, as high as before the pop, and
\* with tip_hash the hash of other.
C6_RollbackThenAppend ==
    (last.op = "add" /\ last.prePopLen >= 1 /\
     last.row.prev_blockhash = ExpectedParent(last.before)) =>
        /\ ~aborted
        /\ HashLinked(rows)
        /\ Len(rows) = last.prePopLen
        /\ tip_hash(rows) = last.row.hash
        /\ rows[Len(rows)] = last.row

\* C6 witness: a tip at height 1 replaced by another header
C6_Witness ==
    /\ last.op = "add" /\ last.ret = "ok" /\ last.prePopLen = 2
    /\ Len(rows) = 2

C8_ThreeBlockHistory ==
    (e2e = 3 /\ map_keys = {"A"}) =>
        /\ Len(out_rows) = 3
        /\ <<out_rows[1].delta, out_rows[2].delta, out_rows[3].delta>>
              = <<"+1.00000000", "-1.00000000", "+0.50000000">>
        /\ <<out_rows[1].balance, out_rows[2].balance, out_rows[3].balance>>
              = <<"1.00000000", "0.00000000", "0.50000000">>

\* C8 witness: the three blocks replayed with only A watched
C8_Witness == e2e = 3 /\ map_keys = {"A"} /\ rpc = "loop" /\ Len(out_rows) = 3


(***************************************************************************)
(* Properties of the cache sync.                                           *)
(***************************************************************************)
FetchedSet == {fetched[i] : i \in DOMAIN fetched}

LocKey(loc) == <<block_hash_hex(loc), loc.offset>>

\* the rows that hold transaction bytes stay as they are
BytesKept(old, new) == \A r \in old : r.tx_bytes # NULL => r \in new

\* C9: a pass whose input is that of the pass committed just before it to the
\* same cache file adds no history row and no txcache row, and no step of any
\* pass changes a txcache row that already holds its tx_bytes and tx_id,
\* neither in the committed file nor in the open transaction.
C9_SecondPassAddsNothing ==
    /\ []((cpc = "idle" /\ repeat /\ status_cache = "file")
            => (history_rows = 0 /\ txcache_rows = 0))
    /\ [][/\ BytesKept(disk.txcache, disk'.txcache)
          /\ (InPass /\ cpc' \in {"history", "txcache"})
                => BytesKept(db.txcache, db'.txcache)]_vars

C9_Witness ==
    /\ cpc = "idle" /\ repeat /\ status_cache = "file"
    /\ \A sc \in CacheScripts : cstatus[sc] # {}
    /\ Cardinality(locations_of(cstatus)) >= 2
    /\ \A loc \in locations_of(cstatus) :
          TxcacheRow(block_hash_hex(loc), loc.offset, txid_of(get_tx_bytes(loc)),
                     get_tx_bytes(loc)) \in disk.txcache

\* get_tx_bytes is called for exactly the Locations whose placeholder insert
\* added a row
FetchIffInserted == FetchedSet = inserted

\* get_tx_bytes is called at most once for a Location in one pass
FetchedOnce == \A i, j \in DOMAIN fetched : i # j => fetched[i] # fetched[j]

\* no Location fetched in this pass has a txcache row an earlier pass committed
NotRefetched == \A loc \in FetchedSet : LocKey(loc) \notin ever_committed

\* C10 as stated: get_tx_bytes is called for a Location exactly when its
\* placeholder insert added a row, at most once in a pass, and never for a
\* Location whose txcache row an earlier pass committed, whichever the cache
\* configuration.
C10_NeverFetchedAgain ==
    /\ FetchIffInserted
    /\ FetchedOnce
    /\ InPass => NotRefetched

\* C10, amended: get_tx_bytes is called for a Location exactly when its
\* placeholder insert added a row, at most once in a pass, and, with a cache
\* file, never for a Location whose txcache row an earlier pass committed;
\* with the in-memory store a pass fetches every Location of its input.
C10_NeverFetchedAgainOnFile ==
    /\ FetchIffInserted
    /\ FetchedOnce
    /\ (InPass /\ status_cache = "file") => NotRefetched
    /\ (cpc = "txcache" /\ tx_todo = <<>> /\ status_cache = ":memory:")
          => FetchedSet = locations_of(cstatus)

C10_Witness ==
    /\ cpc = "txcache" /\ tx_todo = <<>> /\ status_cache = "file"
    /\ passes = 2
    /\ Cardinality(locations_of(cstatus)) = 3
    /\ Len(fetched) = 1
    /\ ever_committed # {}

\* C11: when a pass fails before COMMIT (a statement returns an error, the
\* byte fetch fails or the bytes do not parse), the committed cache is exactly
\* what it was when the pass opened its connection: none of the rows the pass
\* wrote in its transaction is part of it.
C11_FailedPassLeavesNoTrace ==
    cpc \in {"error", "panic"} => disk = opened

C11_Witness ==
    /\ cpc = "panic" /\ status_cache = "file"
    /\ disk.history # {} /\ disk = opened
    /\ \E sc \in CacheScripts : \E loc \in broken[sc] :
          HistoryRow(loc, sc) \notin disk.history

\* the committed content one uninterrupted pass on input m leaves when it
\* opened the content d: d, and a row for every key of m that d lacks
SinglePass(d, m) ==
    [history |-> d.history \cup
        {HistoryRow(loc, sc) : <<sc, loc>> \in
            {<<sc, loc>> \in CacheScripts \X locations_of(m) :
                /\ loc \in m[sc]
                /\ \A r \in d.history : HistoryKey(r) # HistoryKey(HistoryRow(loc, sc))}},
     txcache |-> d.txcache \cup
        {TxcacheRow(block_hash_hex(loc), loc.offset, txid_of(get_tx_bytes(loc)),
                    get_tx_bytes(loc)) : loc \in
            {loc \in locations_of(m) : \A r \in d.txcache : TxcacheKey(r) # LocKey(loc)}}]

\* the rows of disk for the input m: one history row for each (script,
\* Location) pair, one txcache row for each Location, with the bytes and the
\* id of its transaction
OneRowEach(d, m) ==
    /\ \A sc \in CacheScripts : \A loc \in m[sc] :
          {r \in d.history : HistoryKey(r) = HistoryKey(HistoryRow(loc, sc))}
              = {HistoryRow(loc, sc)}
    /\ \A loc \in locations_of(m) :
          {r \in d.txcache : TxcacheKey(r) = LocKey(loc)}
              = {[block_hash |-> ToString(loc.hash), block_offset |-> loc.offset,
                  tx_id |-> "id(tx" \o ToString(loc.hash) \o "." \o ToString(loc.offset) \o ")",
                  tx_bytes |-> "tx" \o ToString(loc.hash) \o "." \o ToString(loc.offset)]}

\* C12: a pass that commits to a cache file, whether or not the pass before it
\* on the same input was interrupted, leaves what one uninterrupted pass
\* leaves: the content it opened plus the missing rows of its input, with
\* exactly one history row per (script, Location) pair and one txcache row per
\* Location, holding the bytes and id of the transaction there.
C12_RerunEqualsSinglePass ==
    (cpc = "idle" /\ status_cache = "file")
        => (disk = SinglePass(opened, cstatus) /\ OneRowEach(disk, cstatus))

C12_Witness ==
    /\ cpc = "idle" /\ status_cache = "file" /\ rerun
    /\ \A sc \in CacheScripts : cstatus[sc] # {}
    /\ Cardinality(locations_of(cstatus)) = 3
    /\ opened = EmptyDb
    /\ Cardinality(disk.txcache) = 3

(***************************************************************************)
(* Properties of the outer loop.                                           *)
(***************************************************************************)
AllStages == <<"create", "print", "cache">>

\* the while loop of line 324 is left only after a sync that indexed nothing
SyncedUntilZero ==
    mpc \in {"create", "print", "cache", "commit", "sleep"} => last_sync = 0

\* C13 as stated: in every iteration sync is called until it reports zero
\* indexed blocks; gather, replay and cache-sync then run once each, in that
\* order, if a batch of the iteration indexed blocks, and not at all if none
\* did.
C13_StagesIffProgress ==
    /\ SyncedUntilZero
    /\ mpc = "sleep" => stages = (IF batches > 0 THEN AllStages ELSE <<>>)

\* C13, amended: in every iteration sync is called until it reports zero
\* indexed blocks; gather, replay and cache-sync then run once each, in that
\* order, if a batch of the iteration indexed blocks or the iteration is the
\* first since the process started, and not at all in a later iteration in
\* which no batch indexed blocks.
C13_StagesIffProgressOrFirst ==
    /\ SyncedUntilZero
    /\ mpc = "sleep" => stages = (IF batches > 0 \/ iter = 1 THEN AllStages ELSE <<>>)

C13_Witness ==
    /\ mpc = "sleep" /\ iter = 3 /\ batches = 0 /\ stages = <<>>
    /\ Len(index_chain) >= 2

(***************************************************************************)
(* Properties of the history gatherer and of the table.                    *)
(***************************************************************************)
Range(seq) == {seq[i] : i \in DOMAIN seq}

StrictlyAscending(seq) == \A i \in 1..(Len(seq) - 1) : LocLess(seq[i], seq[i + 1])

\* C14: Status::create calls find once for each watched script; its Location
\* set holds every Location find returned for any script, each once, in
\* strictly ascending (height, offset) order; and the rows print_history
\* builds are in that order, strictly ascending by (height, offset).
C14_GatheredOnceAscending ==
    /\ \A sc \in CacheScripts : find_calls[sc] <= 1
    /\ hpc \in {"print", "loop", "done"} =>
          /\ \A sc \in CacheScripts : find_calls[sc] = (IF sc \in gscripts THEN 1 ELSE 0)
          /\ DOMAIN gmap = gscripts
          /\ Range(glocations) = UNION {Range(gmap[sc]) : sc \in DOMAIN gmap}
          /\ Len(glocations) = Cardinality(Range(glocations))
          /\ StrictlyAscending(glocations)
    /\ StrictlyAscending(hlocs)
    /\ \A i \in DOMAIN hrows :
          /\ hrows[i].height = ToString(hlocs[i].height)
          /\ hrows[i].offset = ToString(hlocs[i].offset)
          /\ hlocs[i] = glocations[i]

C14_Witness ==
    /\ hpc = "done" /\ Len(hrows) = 3
    /\ gscripts = CacheScripts
    /\ Range(gmap["A"]) \cap Range(gmap["B"]) # {}
    /\ Len(gmap["A"]) = 3 /\ ~StrictlyAscending(gmap["A"])

Min(a, b) == IF a < b THEN a ELSE b

\* the balance after the first i rows, in chronological order
RECURSIVE BalanceAfter(_)
BalanceAfter(i) == IF i = 0 THEN 0 ELSE BalanceAfter(i - 1) + hdeltas[i]

\* the row of the i-th Location of the history, oldest first
ChronologicalRow(i) ==
    [height |-> ToString(hlocs[i].height), offset |-> ToString(hlocs[i].offset),
     delta |-> fmt_delta(hdeltas[i]), balance |-> fmt_balance(BalanceAfter(i))]

\* the min(N, L) most recent rows, newest first, and one marker row iff L > N
NewestFirst(L, N) ==
    [k \in 1..Min(N, L) |-> ChronologicalRow(L + 1 - k)]
        \o (IF L > N THEN <<dots>> ELSE <<>>)

\* C15 as stated: for a history of L rows and any limit N the table shows the
\* min(N, L) most recent rows newest first, then one marker row iff L > N,
\* each row with the balance of the chronological replay of the full history.
C15_TableShowsNewest ==
    hpc = "done" => table = NewestFirst(Len(hlocs), history_limit)

\* C15, amended: for a history of L rows and a limit N >= 1 the table shows
\* the min(N, L) most recent rows newest first, then one marker row iff
\* L > N, each row with the balance of the chronological replay of the full
\* history; with the limit 0 nothing is shown, no marker row either.
C15_TableShowsNewestIfLimit ==
    hpc = "done" =>
        IF history_limit > 0
        THEN table = NewestFirst(Len(hlocs), history_limit)
        ELSE table = <<>> /\ ~printed

C15_Witness ==
    /\ hpc = "done" /\ printed
    /\ history_limit = 2 /\ Len(hlocs) = 3
    /\ hdeltas[1] # hdeltas[2]
    /\ Len(table) = 3 /\ table[3] = dots
    /\ table[1].balance # table[2].balance

\* the stages called in an iteration that ends with the failure `what`
StagesUpTo(what) ==
    CASE what = "sync" -> <<>>
      [] what = "find" -> <<"create">>
      [] what \in {"get_tx_bytes", "bad tx bytes"} -> <<"create", "print">>
      [] OTHER -> AllStages

\* C16: when sync, find, get_tx_bytes or a cache statement fails, the
\* process terminates with an error: the iteration stops at the stage that
\* failed (cache-sync is not called after a failed replay), the cache
\* transaction of the iteration is not committed, and a terminated process
\* takes no further step.
C16_FailureTerminates ==
    /\ [](failed_at # "none" => mpc \in Terminated)
    /\ [](mpc \in Terminated =>
            (failed_at # "none" /\ stages = StagesUpTo(failed_at) /\ txn # "committed"))
    /\ [][mpc \notin Terminated]_vars

C16_Witness ==
    /\ mpc = "error" /\ failed_at = "get_tx_bytes" /\ iter = 2
    /\ stages = <<"create", "print">> /\ txn = "none"
    /\ Len(index_chain) >= 2

(***************************************************************************)
(* The committed cache over passes and reorgs.                             *)
(***************************************************************************)
\* every row of old is a row of new, unchanged
RowsKept(old, new) == old.history \subseteq new.history /\ old.txcache \subseteq new.txcache

\* C17: the committed cache only grows: no step of any pass, failure or
\* restart removes or changes a committed history row or txcache row, so the
\* rows of a block that was rolled back stay in the cache.
C17_AppendOnly == [][RowsKept(disk, disk')]_vars

C17_Witness ==
    /\ cpc = "idle" /\ status_cache = "file" /\ passes = 2
    /\ Location(1, 0, 3) \in locations_of(cstatus)
    /\ \E r \in disk.txcache : r.block_hash = ToString(2) /\ r.tx_bytes # NULL
    /\ \E r \in disk.history : r.block_hash = ToString(2)
    /\ \E r \in disk.txcache : r.block_hash = ToString(3)

\* every Location of the live Status has its header at its height in the Chain
StatusCurrent ==
    \A loc \in mstatus :
        loc.height < Len(index_chain) /\ index_chain[loc.height + 1] = loc.hash

\* C18: while a Status is alive, from Status::create to the end of its
\* replay and cache-sync, the Chain is not mutated: every Location of the
\* Status refers to the header at its height in the current Chain, and the
\* Status holds the Locations of exactly that Chain.
C18_NoLocationAcrossMutation ==
    /\ StatusCurrent
    /\ mpc \in {"print", "cache", "commit"} => mstatus = LocationsIn(index_chain)
    /\ mpc \in {"sync", "create", "sleep"} => mstatus = {}

C18_Witness ==
    /\ mpc = "commit" /\ iter = 2
    /\ Len(index_chain) >= 2 /\ mined > Len(index_chain)
    /\ mstatus = LocationsIn(index_chain)

\* C20: no txcache row of the committed cache lacks its tx_bytes or its
\* tx_id, after any sequence of completed, failed and killed passes.
C20_NoPlaceholderCommitted ==
    \A r \in disk.txcache : r.tx_bytes # NULL /\ r.tx_id # NULL

C20_Witness ==
    /\ cpc = "panic" /\ status_cache = "file" /\ passes = 2
    /\ Cardinality(disk.txcache) = 2
    /\ Cardinality(locations_of(broken)) = 3

(***************************************************************************)
(* The first block.                                                        *)
(***************************************************************************)
\* C19: find_by_txpos of a position inside the first block (below the
\* end-position of the header at height 0) returns height 0 with the offset
\* equal to the position; the predecessor index height - 1 at height 0
\* neither aborts the call nor selects a wrong header.
C19_FirstBlockResolves ==
    (/\ last.op = "find"
     /\ last.before # <<>>
     /\ last.txpos < last.before[1].next_txpos) =>
        /\ last.ret = "some"
        /\ last.height = 0
        /\ last.offset = last.txpos

====
